---- MODULE Spec2Model ----
(***************************************************************************)
(* Model of internal/report/report.go of sgCheckup: Generate reads the     *)
(* security-group facts from the database, classifies each one, sorts the  *)
(* rows and loads the import metadata.                                     *)
(*                                                                         *)
(* A Go string is a sequence of one-character strings, so that             *)
(* strings.Split, the byte-wise comparison of strings and the parsing of   *)
(* port ranges are computed and not assumed.                               *)
(***************************************************************************)
EXTENDS Integers, Sequences, FiniteSets, TLC

\* Number of facts the security_groups query may hold.
MaxFacts == 3

----------------------------------------------------------------------------
(* Go strings *)

Digits == <<"0","1","2","3","4","5","6","7","8","9">>

\* Byte value of the characters the model's strings are made of.
Code(c) ==
  CASE c = " " -> 32 [] c = "," -> 44 [] c = "-" -> 45 [] c = "/" -> 47
    [] c = ":" -> 58 [] c = "<" -> 60 [] c = ">" -> 62
    [] \E i \in 1..10 : Digits[i] = c -> 47 + (CHOOSE i \in 1..10 : Digits[i] = c)
    [] c = "D" -> 68 [] c = "E" -> 69 [] c = "N" -> 78 [] c = "O" -> 79
    [] c = "a" -> 97 [] c = "b" -> 98 [] c = "c" -> 99 [] c = "d" -> 100
    [] c = "e" -> 101 [] c = "g" -> 103 [] c = "m" -> 109 [] c = "n" -> 110
    [] c = "r" -> 114 [] c = "s" -> 115 [] c = "t" -> 116 [] c = "u" -> 117
    [] c = "w" -> 119 [] c = "y" -> 121 [] c = "z" -> 122

\* a < b on Go strings: byte-wise lexicographic order.
RECURSIVE StrLess(_, _)
StrLess(a, b) ==
  IF b = <<>> THEN FALSE
  ELSE IF a = <<>> THEN TRUE
  ELSE IF Code(Head(a)) # Code(Head(b)) THEN Code(Head(a)) < Code(Head(b))
  ELSE StrLess(Tail(a), Tail(b))

\* strings.Split(s, sep) for a one-character separator.
RECURSIVE Split(_, _)
Split(s, sep) ==
  IF \A i \in 1..Len(s) : s[i] # sep THEN <<s>>
  ELSE LET k == CHOOSE i \in 1..Len(s) :
                  s[i] = sep /\ \A j \in 1..(i-1) : s[j] # sep
       IN  <<SubSeq(s, 1, k-1)>> \o Split(SubSeq(s, k+1, Len(s)), sep)

\* strings.HasPrefix(s, prefix)
HasPrefix(s, prefix) ==
  Len(s) >= Len(prefix) /\ SubSeq(s, 1, Len(prefix)) = prefix

\* The %v formatting of a non-negative int.
RECURSIVE Itoa(_)
Itoa(n) ==
  IF n < 10 THEN <<Digits[n+1]>> ELSE Itoa(n \div 10) \o <<Digits[(n % 10) + 1]>>

----------------------------------------------------------------------------
(* internal/multirange: sorted, disjoint, non-touching inclusive ranges *)

IsDigit(c) == \E i \in 1..10 : Digits[i] = c

RECURSIVE Atoi(_)
Atoi(s) ==
  IF Len(s) = 1 THEN Code(s[1]) - 48
  ELSE 10 * Atoi(SubSeq(s, 1, Len(s)-1)) + (Code(s[Len(s)]) - 48)

IsNumber(s) == s # <<>> /\ \A i \in 1..Len(s) : IsDigit(s[i])

\* One token of the text: N or N-M with N <= M.
TokenOk(tok) ==
  LET p == Split(tok, "-")
  IN  \/ Len(p) = 1 /\ IsNumber(p[1])
      \/ Len(p) = 2 /\ IsNumber(p[1]) /\ IsNumber(p[2]) /\ Atoi(p[1]) <= Atoi(p[2])

TokenRange(tok) ==
  LET p == Split(tok, "-")
  IN  IF Len(p) = 1 THEN [start |-> Atoi(p[1]), end |-> Atoi(p[1])]
      ELSE [start |-> Atoi(p[1]), end |-> Atoi(p[2])]

SetMin(S) == CHOOSE x \in S : \A y \in S : x <= y
SetMax(S) == CHOOSE x \in S : \A y \in S : x >= y

\* Insertion in canonical form: the ranges r overlaps or touches merge with it.
AddRange(mr, r) ==
  LET before == SelectSeq(mr, LAMBDA x : x.end + 1 < r.start)
      after  == SelectSeq(mr, LAMBDA x : x.start > r.end + 1)
      mid    == SelectSeq(mr, LAMBDA x : ~(x.end + 1 < r.start) /\ ~(x.start > r.end + 1))
      lo     == SetMin({r.start} \cup {mid[i].start : i \in 1..Len(mid)})
      hi     == SetMax({r.end} \cup {mid[i].end : i \in 1..Len(mid)})
  IN  before \o <<[start |-> lo, end |-> hi]>> \o after

RECURSIVE AddTokens(_, _)
AddTokens(mr, toks) ==
  IF toks = <<>> THEN mr
  ELSE AddTokens(AddRange(mr, TokenRange(Head(toks))), Tail(toks))

\* multirange.FromString: [err, mr]
FromString(text) ==
  LET toks == Split(text, ",")
  IN  IF \A i \in 1..Len(toks) : TokenOk(toks[i])
      THEN [err |-> FALSE, mr |-> AddTokens(<<>>, toks)]
      ELSE [err |-> TRUE, mr |-> <<>>]

\* MultiRange.RemoveElement: splits, shrinks or deletes the range holding n.
RECURSIVE RemoveElement(_, _)
RemoveElement(mr, n) ==
  IF mr = <<>> THEN <<>>
  ELSE LET x == Head(mr)
       IN  IF n < x.start \/ n > x.end THEN <<x>> \o RemoveElement(Tail(mr), n)
           ELSE (IF x.start <= n - 1 THEN <<[start |-> x.start, end |-> n - 1]>> ELSE <<>>)
                \o (IF n + 1 <= x.end THEN <<[start |-> n + 1, end |-> x.end]>> ELSE <<>>)
                \o Tail(mr)

\* MultiRange.Size
RECURSIVE Size(_)
Size(mr) ==
  IF mr = <<>> THEN 0 ELSE (Head(mr).end - Head(mr).start + 1) + Size(Tail(mr))

\* MultiRange.Humanize: "20-21, 23-25"
RECURSIVE Humanize(_)
Humanize(mr) ==
  IF mr = <<>> THEN <<>>
  ELSE LET x == Head(mr)
           t == IF x.start = x.end THEN Itoa(x.start)
                ELSE Itoa(x.start) \o <<"-">> \o Itoa(x.end)
       IN  IF Tail(mr) = <<>> THEN t ELSE t \o <<","," ">> \o Humanize(Tail(mr))

----------------------------------------------------------------------------
(* The classifier: securityGroupRow and its methods *)

\* securityGroupRow.isProblematic
isProblematic(r) ==
  IF r.largeRangeCount THEN TRUE
  ELSE IF r.isLargePublicBlock THEN TRUE
  ELSE FALSE

RECURSIVE RemoveAll(_, _)
RemoveAll(mr, ports) ==
  IF ports = <<>> THEN mr ELSE RemoveAll(RemoveElement(mr, Head(ports)), Tail(ports))

\* A slip in unsafePorts: only the first safe port is removed.
unsafePortsFirstSafeOnly(r, safePorts) ==
  IF Len(r.portRanges) > 0
  THEN LET p == FromString(r.portRanges[1])
       IN  IF p.err THEN [err |-> TRUE, mr |-> <<>>]
           ELSE [err |-> FALSE,
                 mr |-> IF safePorts = <<>> THEN p.mr
                        ELSE RemoveElement(p.mr, Head(safePorts))]
  ELSE [err |-> FALSE, mr |-> <<>>]

\* securityGroupRow.unsafePorts: [err, mr]. Only portRanges[0] is parsed.
unsafePorts(r, safePorts) ==
  IF Len(r.portRanges) > 0
  THEN LET p == FromString(r.portRanges[1])
       IN  IF p.err THEN [err |-> TRUE, mr |-> <<>>]
           ELSE [err |-> FALSE, mr |-> RemoveAll(p.mr, safePorts)]
  ELSE [err |-> FALSE, mr |-> <<>>]

\* fmt.Sprintf(format, arg) with one %v: the format and the formatted argument.
Sprintf(format, arg) == [text |-> format, arg |-> arg]
Plain(text) == [text |-> text, arg |-> <<>>]

\* A slip in notes: the unsafe-port note is written for internal-only groups
\* too.
notesIgnoringInternalOnly(r, unsafe) ==
  (IF Size(unsafe) > 0
   THEN <<[text |-> "Allows traffic from anywhere on TCP ports (%v)", arg |-> Humanize(unsafe)]>>
   ELSE <<>>)
  \o (IF r.isLargePublicBlock
      THEN <<[text |-> "Has IP restrictions, but they let through large ranges", arg |-> <<>>]>>
      ELSE <<>>)
  \o (IF r.largeRangeCount THEN <<[text |-> "Uses a lot of IP Ranges", arg |-> <<>>]>> ELSE <<>>)
  \o (IF ~r.inUse THEN <<[text |-> "Not in use", arg |-> <<>>]>> ELSE <<>>)
  \o (IF Len(r.ips) > 0
      THEN <<[text |-> "Contains %v public IP address(es)", arg |-> Itoa(Len(r.ips))]>>
      ELSE <<[text |-> "No public IP addresses found", arg |-> <<>>]>>)

\* securityGroupRow.notes
notes(r, unsafe) ==
  (IF Size(unsafe) > 0 /\ ~r.internalOnly
   THEN <<Sprintf("Allows traffic from anywhere on TCP ports (%v)", Humanize(unsafe))>>
   ELSE <<>>)
  \o (IF r.isLargePublicBlock
      THEN <<Plain("Has IP restrictions, but they let through large ranges")>>
      ELSE <<>>)
  \o (IF r.largeRangeCount THEN <<Plain("Uses a lot of IP Ranges")>> ELSE <<>>)
  \o (IF ~r.inUse THEN <<Plain("Not in use")>> ELSE <<>>)
  \o (IF Len(r.ips) > 0
      THEN <<Sprintf("Contains %v public IP address(es)", Itoa(Len(r.ips)))>>
      ELSE <<Plain("No public IP addresses found")>>)

\* A slip in the status decision: a non-default group in use is green without
\* the check of isProblematic.
rowStatusNoProblematic(r, unsafe) ==
  IF r.isDefault
  THEN IF r.inUse
       THEN IF r.isRestricted \/ r.internalOnly \/ Len(r.ips) = 0
            THEN "yellow" ELSE "red"
       ELSE IF r.isRestricted THEN "green" ELSE "yellow"
  ELSE IF r.inUse
       THEN IF r.isRestricted \/ Size(unsafe) = 0 THEN "green"
            ELSE IF Len(r.ips) = 0 THEN "yellow"
            ELSE "red"
       ELSE "yellow"

\* A slip in the status decision: isRestricted is not asked for a non-default
\* group in use.
rowStatusNoRestricted(r, unsafe) ==
  IF r.isDefault
  THEN IF r.inUse
       THEN IF r.isRestricted \/ r.internalOnly \/ Len(r.ips) = 0
            THEN "yellow" ELSE "red"
       ELSE IF r.isRestricted THEN "green" ELSE "yellow"
  ELSE IF r.inUse
       THEN IF ~isProblematic(r) /\ Size(unsafe) = 0 THEN "green"
            ELSE IF Len(r.ips) = 0 THEN "yellow"
            ELSE "red"
       ELSE "yellow"

\* A slip in the status decision: a default group in use is red without the
\* check of its public IPs.
rowStatusNoIpCheck(r, unsafe) ==
  IF r.isDefault
  THEN IF r.inUse
       THEN IF r.isRestricted \/ r.internalOnly
            THEN "yellow" ELSE "red"
       ELSE IF r.isRestricted THEN "green" ELSE "yellow"
  ELSE IF r.inUse
       THEN IF r.isRestricted \/ (~isProblematic(r) /\ Size(unsafe) = 0) THEN "green"
            ELSE IF Len(r.ips) = 0 THEN "yellow"
            ELSE "red"
       ELSE "yellow"

\* The status decision of analyzeSecurityGroupResults for one row.
rowStatus(r, unsafe) ==
  IF r.isDefault
  THEN IF r.inUse
       THEN IF r.isRestricted \/ r.internalOnly \/ Len(r.ips) = 0
            THEN "yellow" ELSE "red"
       ELSE IF r.isRestricted THEN "green" ELSE "yellow"
  ELSE IF r.inUse
       THEN IF r.isRestricted \/ (~isProblematic(r) /\ Size(unsafe) = 0) THEN "green"
            ELSE IF Len(r.ips) = 0 THEN "yellow"
            ELSE "red"
       ELSE "yellow"

\* The Row appended for one securityGroupRow.
reportRow(r, unsafe) ==
  [Arn |-> r.arn, Name |-> r.groupName, Status |-> rowStatus(r, unsafe),
   PublicIps |-> r.ips, InUse |-> r.inUse, IsDefault |-> r.isDefault,
   Notes |-> notes(r, unsafe)]

\* analyzeSecurityGroupResults: [err, rows]; the first parse failure returns
\* nil rows and the error.
RECURSIVE analyzeLoop(_, _, _)
analyzeLoop(results, safePorts, acc) ==
  IF results = <<>> THEN [err |-> FALSE, rows |-> acc]
  ELSE LET u == unsafePorts(Head(results), safePorts)
       IN  IF u.err THEN [err |-> TRUE, rows |-> <<>>]
           ELSE analyzeLoop(Tail(results), safePorts,
                            Append(acc, reportRow(Head(results), u.mr)))

analyzeSecurityGroupResults(results, safePorts) == analyzeLoop(results, safePorts, <<>>)

----------------------------------------------------------------------------
(* Sorting *)

\* statusIndex
statusIndex(s) == CASE s = "red" -> 0 [] s = "yellow" -> 1 [] s = "green" -> 2

\* A slip in arnRegion: the account field is taken for the region.
arnRegionAccountField(arn) == Split(arn, ":")[5]

\* arnRegion: parts[3] of the colon-split ARN (zero-based).
arnRegion(arn) == Split(arn, ":")[4]

\* sortRowsLess
sortRowsLess(a, b) ==
  IF a.Status = b.Status
  THEN LET aRegion == arnRegion(a.Arn)
           bRegion == arnRegion(b.Arn)
       IN  IF aRegion = bRegion THEN StrLess(a.Name, b.Name)
           ELSE StrLess(aRegion, bRegion)
  ELSE statusIndex(a.Status) < statusIndex(b.Status)

RECURSIVE InsertStable(_, _)
RECURSIVE InsertDroppingEqual(_, _)
\* A slip in the sort: a row whose key equals a sorted row's key replaces
\* nothing and is lost.
InsertDroppingEqual(sorted, r) ==
  IF sorted = <<>> THEN <<r>>
  ELSE IF sortRowsLess(r, sorted[Len(sorted)])
       THEN Append(InsertStable(SubSeq(sorted, 1, Len(sorted) - 1), r), sorted[Len(sorted)])
       ELSE IF sortRowsLess(sorted[Len(sorted)], r) THEN Append(sorted, r)
       ELSE sorted

\* Stable insertion of r into a sorted sequence: after every element that is
\* not greater than it.
InsertStable(sorted, r) ==
  IF sorted = <<>> THEN <<r>>
  ELSE IF sortRowsLess(r, sorted[Len(sorted)])
       THEN Append(InsertStable(SubSeq(sorted, 1, Len(sorted) - 1), r), sorted[Len(sorted)])
       ELSE Append(sorted, r)

\* sort.SliceStable(reportRows, sortRowsLess)
RECURSIVE SliceStableFrom(_, _)
SliceStableFrom(sorted, rest) ==
  IF rest = <<>> THEN sorted
  ELSE SliceStableFrom(InsertStable(sorted, Head(rest)), Tail(rest))

SliceStable(rows) == SliceStableFrom(<<>>, rows)

----------------------------------------------------------------------------
(* The database and the caller's arguments *)

\* defaultSafePorts
defaultSafePorts == <<22, 80, 443>>

\* A security_groups row as rows.Scan fills it.
Fact(arn, name, ips, inUse, isDefault, portRanges, block, count, restricted, internal) ==
  [arn |-> arn, groupName |-> name, ips |-> ips, inUse |-> inUse,
   isDefault |-> isDefault, portRanges |-> portRanges,
   isLargePublicBlock |-> block, largeRangeCount |-> count,
   isRestricted |-> restricted, internalOnly |-> internal]

\* Facts of the imported account used for whole runs of Generate: two share the
\* sort key (yellow, us-east-1, "b"), one changes status with the safe ports,
\* one has port text that does not parse.
WestA == Fact(<<"a","r","n",":","a","w","s",":","e","c","2",":","u","s","-","w","e","s","t","-","2",":","1","1","1",":","s","g","/","a">>, <<"a">>, <<"1.2.3.4">>, TRUE, FALSE,
              <<<<"2","0","-","2","5">>>>, FALSE, FALSE, FALSE, FALSE)
EastZ == Fact(<<"a","r","n",":","a","w","s",":","e","c","2",":","u","s","-","e","a","s","t","-","1",":","2","2","2",":","s","g","/","z">>, <<"z">>, <<"5.6.7.8">>, TRUE, FALSE,
              <<<<"2","2">>>>, FALSE, FALSE, FALSE, FALSE)
EastB == Fact(<<"a","r","n",":","a","w","s",":","e","c","2",":","u","s","-","e","a","s","t","-","1",":","1","1","1",":","s","g","/","b">>, <<"b">>, <<>>, FALSE, FALSE,
              <<>>, FALSE, FALSE, FALSE, FALSE)
EastBDefault == Fact(<<"a","r","n",":","a","w","s",":","e","c","2",":","u","s","-","e","a","s","t","-","1",":","2","2","2",":","s","g","/","b">>, <<"b">>, <<>>, TRUE, TRUE,
              <<<<"8","0",",","4","4","3">>>>, FALSE, FALSE, FALSE, FALSE)
EastA == Fact(<<"a","r","n",":","a","w","s",":","e","c","2",":","u","s","-","e","a","s","t","-","1",":","1","1","1",":","s","g","/","a">>, <<"a">>, <<"9.9.9.9">>, TRUE, TRUE,
              <<>>, TRUE, FALSE, FALSE, TRUE)
WestBad == Fact(<<"a","r","n",":","a","w","s",":","e","c","2",":","u","s","-","w","e","s","t","-","2",":","1","1","1",":","s","g","/","c">>, <<"c">>, <<>>, TRUE, FALSE,
              <<<<"a","b","c">>>>, FALSE, FALSE, TRUE, FALSE)

AccountFacts == {WestA, EastZ, EastB, EastBDefault, EastA, WestBad}

SeqsUpTo(S, n) == UNION {[1..k -> S] : k \in 0..n}

\* The safePorts argument of Generate: a nil slice or a list.
NilPorts == [nil |-> TRUE, ports |-> <<>>]
Ports(p) == [nil |-> FALSE, ports |-> p]

\* Port-range texts of the classifier's inputs.
PortTexts == {<<"2","0","-","2","5">>, <<"2","2">>, <<"8","0",",","4","4","3">>, <<"4","4","3",",","2","0","-","2","5",",","2","2","-","2","3">>, <<"a","b","c">>, <<"5","-","2">>}

\* Every combination of the flags of a fact, with and without public IPs and
\* port data.
ClassifierFacts ==
  {Fact(<<"a","r","n",":","a","w","s",":","e","c","2",":","u","s","-","e","a","s","t","-","1",":","1","1","1",":","s","g","/","a">>, <<"a">>, ips, u, d, pr, b, c, r, i) :
     ips \in {<<>>, <<"1.2.3.4">>, <<"1.2.3.4", "5.6.7.8">>},
     u \in BOOLEAN, d \in BOOLEAN,
     pr \in {<<>>} \cup {<<t>> : t \in PortTexts},
     b \in BOOLEAN, c \in BOOLEAN, r \in BOOLEAN, i \in BOOLEAN}

ClassifierSafePorts ==
  {NilPorts, Ports(<<>>), Ports(<<22>>), Ports(<<21, 22, 23>>), Ports(<<20, 25, 80, 443>>)}

\* The most recent import job, when there is one.
ImportJobs == {[endDate |-> "2021-03-01T00:00:00Z", organization |-> <<"O","r","g","D","u","m","m","y","-","1">>],
               [endDate |-> "2021-03-01T00:00:00Z", organization |-> <<"a","c","m","e">>]}

----------------------------------------------------------------------------
(* Generate *)

VARIABLES
  facts,         \* the rows the security_groups query holds
  safePortsArg,  \* Generate's safePorts argument
  pc,            \* where Generate is
  results,       \* runSecurityGroupQuery: the rows scanned so far
  rowsErr,       \* rows.Err() # nil: the cursor stopped on an error
  unsafeSets,    \* analyzeSecurityGroupResults: the unsafe ports of each row
  reportRows,    \* Generate: reportRows
  ret            \* what Generate returned

vars == <<facts, safePortsArg, pc, results, rowsErr, unsafeSets, reportRows, ret>>

NoReturn == [kind |-> "none", msg |-> "", report |-> <<>>]
ReturnError(msg) == [kind |-> "error", msg |-> msg, report |-> <<>>]
ReturnReport(metadata, rows) ==
  [kind |-> "report", msg |-> "", report |-> <<[Metadata |-> metadata, Rows |-> rows]>>]
\* A run-time panic unwinds Generate: nothing is returned.
Panic(msg) == [kind |-> "panic", msg |-> msg, report |-> <<>>]

Start(fs, sp, at) ==
  /\ facts = fs
  /\ safePortsArg = sp
  /\ pc = at
  /\ results = (IF at = "open" THEN <<>> ELSE fs)
  /\ rowsErr = FALSE
  /\ unsafeSets = <<>>
  /\ reportRows = <<>>
  /\ ret = NoReturn

Init ==
  \E fs \in SeqsUpTo(AccountFacts, MaxFacts), sp \in {NilPorts, Ports(<<80>>)} :
    Start(fs, sp, "open")

Fail(msg) ==
  /\ pc' = "done"
  /\ ret' = ReturnError(msg)

\* sql.Open
Open ==
  /\ pc = "open"
  /\ \E ok \in BOOLEAN :
       IF ok THEN pc' = "ping" /\ ret' = ret
       ELSE Fail("Failed to connect to db")
  /\ UNCHANGED <<facts, safePortsArg, results, rowsErr, unsafeSets, reportRows>>

\* db.Ping
Ping ==
  /\ pc = "ping"
  /\ \E ok \in BOOLEAN :
       IF ok THEN pc' = "install" /\ ret' = ret
       ELSE Fail("Failed to ping db")
  /\ UNCHANGED <<facts, safePortsArg, results, rowsErr, unsafeSets, reportRows>>

\* installDbFunctions: loadQuery or db.Exec may fail.
InstallDbFunctions ==
  /\ pc = "install"
  /\ \E outcome \in {"ok", "loadQuery", "exec"} :
       IF outcome = "ok" THEN pc' = "query" /\ ret' = ret
       ELSE Fail("Failed to install fixture functions")
  /\ UNCHANGED <<facts, safePortsArg, results, rowsErr, unsafeSets, reportRows>>

\* runSecurityGroupQuery up to the loop: loadQuery or db.Query may fail.
Query ==
  /\ pc = "query"
  /\ \E outcome \in {"ok", "loadQuery", "query"} :
       IF outcome = "ok" THEN pc' = "rows" /\ ret' = ret
       ELSE Fail("Failed to run analysis query")
  /\ UNCHANGED <<facts, safePortsArg, results, rowsErr, unsafeSets, reportRows>>

\* One evaluation of `for rows.Next()` and its body. Next reports false at the
\* end of the data and also when reading stops on an error; the function never
\* asks rows.Err() and returns the rows read so far with a nil error.
RowsNext ==
  /\ pc = "rows"
  /\ \E outcome \in {"row", "scanError", "end", "nextError"} :
       /\ outcome \in {"row", "scanError"} => Len(results) < Len(facts)
       /\ outcome = "end" => Len(results) = Len(facts)
       /\ CASE outcome = "row" ->
                 /\ results' = Append(results, facts[Len(results) + 1])
                 /\ UNCHANGED <<pc, ret, rowsErr>>
            [] outcome = "scanError" ->
                 /\ Fail("Failed to run analysis query")
                 /\ UNCHANGED <<results, rowsErr>>
            [] outcome = "end" ->
                 /\ pc' = "analyze"
                 /\ UNCHANGED <<results, ret, rowsErr>>
            [] outcome = "nextError" ->
                 /\ rowsErr' = TRUE
                 /\ pc' = "analyze"
                 /\ UNCHANGED <<results, ret>>
  /\ UNCHANGED <<facts, safePortsArg, unsafeSets, reportRows>>

\* The safe ports Generate classifies with.
effectiveSafePorts(arg) == IF arg.nil THEN defaultSafePorts ELSE arg.ports

\* The unsafe-port sets analyzeSecurityGroupResults computed: one per row up to
\* the first that fails to parse.
RECURSIVE unsafeComputed(_, _)
unsafeComputed(rs, safePorts) ==
  IF rs = <<>> THEN <<>>
  ELSE LET u == unsafePorts(Head(rs), safePorts)
       IN  IF u.err THEN <<>> ELSE <<u.mr>> \o unsafeComputed(Tail(rs), safePorts)

\* Generate: the default of safePorts and analyzeSecurityGroupResults.
Analyze ==
  /\ pc = "analyze"
  /\ LET safePorts == effectiveSafePorts(safePortsArg)
         a == analyzeSecurityGroupResults(results, safePorts)
     IN  /\ unsafeSets' = unsafeComputed(results, safePorts)
         /\ IF a.err
            THEN Fail("Failed to generate report from query results") /\ reportRows' = reportRows
            ELSE pc' = "sort" /\ reportRows' = a.rows /\ ret' = ret
  /\ UNCHANGED <<facts, safePortsArg, results, rowsErr>>

\* Generate: sort.SliceStable
Sort ==
  /\ pc = "sort"
  /\ reportRows' = SliceStable(reportRows)
  /\ pc' = "metadata"
  /\ UNCHANGED <<facts, safePortsArg, results, rowsErr, unsafeSets, ret>>

\* loadMetadata's result for the import job read.
metadataOf(job, rows) ==
  [Imported |-> job.endDate, Generated |-> "now",
   Account |-> Split(rows[1].Arn, ":")[5],
   Organization |-> IF HasPrefix(job.organization, <<"O","r","g","D","u","m","m","y">>) THEN <<"<","N","O","N","E",">">>
                    ELSE job.organization]

\* loadMetadata and the return of Generate. reportRows[0] is read without a
\* check of the length: with no rows the index is out of range.
LoadMetadata ==
  /\ pc = "metadata"
  /\ \E outcome \in {"loadQuery", "query", "noRow", "scanError", "job"} :
       IF outcome # "job" THEN Fail("Failed to load metadata")
       ELSE \E job \in ImportJobs :
              IF reportRows = <<>>
              THEN pc' = "panicked" /\ ret' = Panic("index out of range [0] with length 0")
              ELSE pc' = "done" /\ ret' = ReturnReport(metadataOf(job, reportRows), reportRows)
  /\ UNCHANGED <<facts, safePortsArg, results, rowsErr, unsafeSets, reportRows>>

Next ==
  \/ Open
  \/ Ping
  \/ InstallDbFunctions
  \/ Query
  \/ RowsNext
  \/ Analyze
  \/ Sort
  \/ LoadMetadata

Spec == Init /\ [][Next]_vars

\* The classifier alone: one fact has been read and Generate classifies it.
InitClassifier ==
  \E f \in ClassifierFacts, sp \in ClassifierSafePorts : Start(<<f>>, sp, "analyze")

NextClassifier == Analyze

SpecClassifier == InitClassifier /\ [][NextClassifier]_vars

----------------------------------------------------------------------------
(* Properties of the classifier, checked under SpecClassifier, where facts
   holds one fact and Analyze has classified it once pc # "analyze". *)

Classified == pc = "sort" /\ Len(reportRows) = 1 /\ Len(unsafeSets) = 1
TheFact == facts[1]
TheRow == reportRows[1]
TheUnsafe == unsafeSets[1]

\* The ports a multirange covers.
Elements(mr) == UNION {mr[i].start .. mr[i].end : i \in 1..Len(mr)}

\* What each well-formed port text of PortTexts denotes, written out by hand.
Denotes(text) ==
  CASE text = <<"2","0","-","2","5">> -> 20..25
    [] text = <<"2","2">> -> {22}
    [] text = <<"8","0",",","4","4","3">> -> {80, 443}
    [] text = <<"4","4","3",",","2","0","-","2","5",",","2","2","-","2","3">> -> (20..25) \cup {443}

WellFormed == {<<"2","0","-","2","5">>, <<"2","2">>, <<"8","0",",","4","4","3">>, <<"4","4","3",",","2","0","-","2","5",",","2","2","-","2","3">>}
Malformed == {<<"a","b","c">>, <<"5","-","2">>}

\* The decision table of the specification.
TableStatus(f, unsafeSize) ==
  LET problematic == f.largeRangeCount \/ f.isLargePublicBlock
  IN  CASE f.isDefault /\ f.inUse ->
             IF f.isRestricted \/ f.internalOnly \/ f.ips = <<>> THEN "yellow" ELSE "red"
        [] f.isDefault /\ ~f.inUse ->
             IF f.isRestricted THEN "green" ELSE "yellow"
        [] ~f.isDefault /\ f.inUse ->
             IF f.isRestricted \/ (~problematic /\ unsafeSize = 0) THEN "green"
             ELSE IF f.ips = <<>> THEN "yellow"
             ELSE "red"
        [] ~f.isDefault /\ ~f.inUse -> "yellow"

\* C1: whenever the unsafe-port set of a fact was computed without error, the
\* status of its row is the one the decision table gives for the fact's flags,
\* its public IPs and the size of the unsafe-port set.
C1_StatusFollowsTable ==
  Classified => TheRow.Status = TableStatus(TheFact, Cardinality(Elements(TheUnsafe)))

\* A non-default group in use, not restricted and not problematic, whose only
\* open port is a default safe port: green by the unsafe-port condition.
C1_Witness ==
  /\ Classified
  /\ ~TheFact.isDefault /\ TheFact.inUse /\ ~TheFact.isRestricted
  /\ ~TheFact.largeRangeCount /\ ~TheFact.isLargePublicBlock
  /\ TheFact.portRanges = <<<<"2","2">>>> /\ safePortsArg.nil
  /\ TheFact.ips # <<>>
  /\ TheRow.Status = "green"

UnsafeNoteText == "Allows traffic from anywhere on TCP ports (%v)"
ContainsNoteText == "Contains %v public IP address(es)"

\* The five candidate notes in their fixed order, each with its predicate.
NoteCandidates(f, unsafeSize) ==
  << [on |-> unsafeSize > 0 /\ ~f.internalOnly, text |-> UnsafeNoteText],
     [on |-> f.isLargePublicBlock,
      text |-> "Has IP restrictions, but they let through large ranges"],
     [on |-> f.largeRangeCount, text |-> "Uses a lot of IP Ranges"],
     [on |-> ~f.inUse, text |-> "Not in use"],
     [on |-> TRUE, text |-> IF f.ips # <<>> THEN ContainsNoteText
                            ELSE "No public IP addresses found"] >>

NoteTexts(ns) == [i \in 1..Len(ns) |-> ns[i].text]
CandidateTexts(cs) == [i \in 1..Len(cs) |-> cs[i].text]

\* The count of public IPs as the note prints it.
CountText(n) == CASE n = 1 -> <<"1">> [] n = 2 -> <<"2">>

\* C7: the notes of a row are exactly the candidates whose predicate holds, in
\* the fixed order; a public-IP note is always the last one and carries the
\* number of public IPs; a row has between 1 and 5 notes.
C7_NotesAreSelectedCandidates ==
  Classified =>
    LET ns == TheRow.Notes
        cs == NoteCandidates(TheFact, Cardinality(Elements(TheUnsafe)))
    IN  /\ NoteTexts(ns) = CandidateTexts(SelectSeq(cs, LAMBDA c : c.on))
        /\ Len(ns) >= 1 /\ Len(ns) <= 5
        /\ ns[Len(ns)].text \in {ContainsNoteText, "No public IP addresses found"}
        /\ TheFact.ips # <<>> => ns[Len(ns)].arg = CountText(Len(TheFact.ips))

\* The notes-ordering example of the specification: unsafe ports, a large
\* public block, not in use, no public IPs.
C7_Witness ==
  /\ Classified
  /\ TheFact.isLargePublicBlock /\ ~TheFact.largeRangeCount /\ ~TheFact.inUse
  /\ ~TheFact.internalOnly /\ TheFact.ips = <<>>
  /\ NoteTexts(TheRow.Notes) =
       << UnsafeNoteText, "Has IP restrictions, but they let through large ranges",
          "Not in use", "No public IP addresses found" >>

\* The safe ports the claim says are used.
ClaimedSafePorts ==
  IF safePortsArg.nil THEN {22, 80, 443}
  ELSE {safePortsArg.ports[i] : i \in 1..Len(safePortsArg.ports)}

\* C8: once a fact is classified, a well-formed port text has parsed and the
\* unsafe-port set is what the text denotes minus the caller's safe ports, or
\* minus {22, 80, 443} when the caller passed none; with no port text the
\* unsafe-port set is empty.
C8_UnsafePortsAreDenotedMinusSafe ==
  pc # "analyze" =>
    /\ TheFact.portRanges = <<>> => Classified /\ TheUnsafe = <<>>
    /\ (TheFact.portRanges # <<>> /\ TheFact.portRanges[1] \in WellFormed) =>
         /\ Classified
         /\ Elements(TheUnsafe) = Denotes(TheFact.portRanges[1]) \ ClaimedSafePorts

\* The example of the specification: "20-25" with safe ports [22] leaves
\* {20, 21, 23, 24, 25}, rendered "20-21, 23-25".
C8_Witness ==
  /\ Classified
  /\ TheFact.portRanges = <<<<"2","0","-","2","5">>>>
  /\ safePortsArg = Ports(<<22>>)
  /\ Elements(TheUnsafe) = {20, 21, 23, 24, 25}
  /\ Humanize(TheUnsafe) = <<"2","0","-","2","1",","," ","2","3","-","2","5">>

RestrictedInUse == ~TheFact.isDefault /\ TheFact.inUse /\ TheFact.isRestricted

\* C9 as stated: a non-default, in-use, restricted fact gets a green row
\* whatever its port data is, text that does not parse included.
C9_GreenForAnyPortData ==
  (pc # "analyze" /\ RestrictedInUse) => Classified /\ TheRow.Status = "green"

\* C9 as amended: the row is green when the port data is absent or parses; when
\* it does not parse, classification fails with an error and yields no row.
C9_GreenUnlessParseFails ==
  (pc # "analyze" /\ RestrictedInUse) =>
    IF TheFact.portRanges # <<>> /\ TheFact.portRanges[1] \in Malformed
    THEN pc = "done" /\ ret.kind = "error" /\ reportRows = <<>>
    ELSE Classified /\ TheRow.Status = "green"

\* A restricted group in use with unsafe ports and a large public block: green.
C9_Witness ==
  /\ Classified /\ RestrictedInUse
  /\ TheFact.portRanges = <<<<"2","0","-","2","5">>>> /\ Elements(TheUnsafe) # {}
  /\ TheFact.isLargePublicBlock
  /\ TheRow.Status = "green"

\* C10: a red row comes from a fact that is in use, is not restricted and has a
\* public IP; it carries neither "Not in use" nor "No public IP addresses
\* found", and its last note is the count of public IPs, at least 1.
C10_RedMeansExposed ==
  (Classified /\ TheRow.Status = "red") =>
    LET ns == TheRow.Notes
    IN  /\ TheFact.inUse /\ ~TheFact.isRestricted /\ Len(TheFact.ips) >= 1
        /\ \A i \in 1..Len(ns) :
             ns[i].text \notin {"Not in use", "No public IP addresses found"}
        /\ ns[Len(ns)].text = ContainsNoteText
        /\ ns[Len(ns)].arg \in {CountText(1), CountText(2)}

\* Red rows of both kinds of group exist: here a default group in use.
C10_Witness ==
  /\ Classified /\ TheRow.Status = "red"
  /\ TheFact.isDefault /\ Len(TheFact.ips) = 2

----------------------------------------------------------------------------
(* Properties of whole runs of Generate, checked under Spec *)

Returned == ret.kind = "report"
Report == ret.report[1]

IndexPermutations(n) == {p \in [1..n -> 1..n] : \A i, j \in 1..n : p[i] = p[j] => i = j}

\* Row r carries the pass-through fields of fact f.
Carries(r, f) ==
  /\ r.Arn = f.arn /\ r.Name = f.groupName /\ r.PublicIps = f.ips
  /\ r.InUse = f.inUse /\ r.IsDefault = f.isDefault

\* C5: a returned report has as many rows as the fact query returned facts, and
\* the rows are a permutation of the facts: each fact gives exactly one row with
\* its arn, name, public IPs, inUse and isDefault.
C5_RowsArePermutationOfFacts ==
  Returned =>
    /\ Len(Report.Rows) = Len(results)
    /\ \E p \in IndexPermutations(Len(results)) :
         \A i \in 1..Len(results) : Carries(Report.Rows[i], results[p[i]])

\* A report of three rows that the sort has reordered.
C5_Witness ==
  /\ Returned /\ Len(Report.Rows) = 3 /\ ~rowsErr
  /\ ~Carries(Report.Rows[1], results[1])
  /\ Report.Rows[1] # Report.Rows[2] /\ Report.Rows[2] # Report.Rows[3]

Rank(status) == CASE status = "red" -> 0 [] status = "yellow" -> 1 [] status = "green" -> 2

\* The composite sort key of a row: severity rank, region, name.
Key(r) == <<Rank(r.Status), Split(r.Arn, ":")[4], r.Name>>

KeyLeq(a, b) ==
  \/ a[1] < b[1]
  \/ a[1] = b[1] /\ a[2] # b[2] /\ StrLess(a[2], b[2])
  \/ a[1] = b[1] /\ a[2] = b[2] /\ (a[3] = b[3] \/ StrLess(a[3], b[3]))

\* C6: the rows of a returned report are in ascending order of the key
\* (severity rank, region, name), and rows of equal key keep the order in which
\* the fact query returned their facts.
C6_RowsSortedStably ==
  Returned =>
    LET rows == Report.Rows
    IN  /\ \A i \in 1..(Len(rows) - 1) : KeyLeq(Key(rows[i]), Key(rows[i+1]))
        /\ \E p \in IndexPermutations(Len(rows)) :
             /\ \A i \in 1..Len(rows) : Carries(rows[i], results[p[i]])
             /\ \A i, j \in 1..Len(rows) :
                  (i < j /\ Key(rows[i]) = Key(rows[j])) => p[i] < p[j]

\* The sort example of the specification, read as yellow/us-east-1/b,
\* red/us-west-2/a, red/us-east-1/z and returned as red/us-east-1/z,
\* red/us-west-2/a, yellow/us-east-1/b.
C6_Witness ==
  /\ Returned
  /\ results = <<EastB, WestA, EastZ>>
  /\ <<Key(Report.Rows[1]), Key(Report.Rows[2]), Key(Report.Rows[3])>> =
       << <<0, <<"u","s","-","e","a","s","t","-","1">>, <<"z">>>>, <<0, <<"u","s","-","w","e","s","t","-","2">>, <<"a">>>>,
          <<1, <<"u","s","-","e","a","s","t","-","1">>, <<"b">>>> >>

\* C2: Generate is fail-fast and all-or-nothing: a call that has returned
\* gave an error and no report, or a report built after every stage succeeded,
\* which holds a row for every fact of the database and never a partially
\* built row list.
C2_FailFastAllOrNothing ==
  pc = "done" =>
    \/ ret.kind = "error" /\ ret.report = <<>>
    \/ Returned /\ Len(Report.Rows) = Len(facts)

\* C3: when the row cursor stops on an error, runSecurityGroupQuery returns an
\* error: Generate ends there with an error and does not go on with the rows
\* read so far.
C3_CursorErrorFailsFetch ==
  rowsErr => pc = "done" /\ ret.kind = "error"

\* C4: with no security-group facts in the database, a call to Generate that
\* has ended returned a report or an error.
C4_EmptyFactSetReturns ==
  (pc \in {"done", "panicked"} /\ facts = <<>> /\ ~rowsErr) => ret.kind \in {"report", "error"}

====
